---- MODULE Spec2Model ----
(***************************************************************************)
(* Backend-pool management and selection core of go-load-balancer:         *)
(* the three balancers (round-robin, least-connections, ip-hash), their    *)
(* registries, and the dispatcher ReverseProxy.ServeHTTP.                  *)
(*                                                                         *)
(* Backends are heap objects (Go *Backend pointers); a registry is a       *)
(* sequence of object ids.  Methods that take a *Backend only to compare   *)
(* URL.String() are modelled with the URL as their argument.               *)
(***************************************************************************)
EXTENDS Integers, Sequences, FiniteSets, Bags, TLC

\* ---------------------------------------------------------------- bounds
NProc == 2          \* concurrent ServeHTTP goroutines
MaxObj == 3         \* Backend objects ever created
NURL == 2           \* distinct backend addresses
MaxRequests == 2    \* requests ever started (caps the counters)
MaxCursor == 5      \* cap on the round-robin cursor
MaxHeld == 3
\* ticker firings the health-check loop consumes
MaxTicks == 2
\* StopHealthCheck calls in progress at one time
MaxStoppers == 2
\* probe goroutines in flight at one time
MaxProbes == 2
\* backing arrays alive at one time
MaxArr == 3
\* backend URLs on the command line
MaxFlagURLs == 2        \* selections outstanding at once for a sequential caller

Procs == 1..NProc
Obj == 1..MaxObj
URLs == 1..NURL
Nil == 0

ArrIds == 1..MaxArr
Algorithms == {"round-robin", "least-connections", "ip-hash"}

VARIABLES
  algorithm,    \* which balancer createLoadBalancer built
  heap,         \* Obj -> Backend record (URL, Alive, Connections, ...)
  nobj,         \* number of Backend objects created so far
  backends,     \* the balancer's registry: sequence of object ids
  current,      \* RoundRobinBalancer.current
  req,          \* per ServeHTTP goroutine: position and locals
  nreq,         \* requests started so far
  reserved,     \* Obj -> number of increments done by SelectBackend
  released,     \* Obj -> number of DecrementConnections calls
  hist,         \* sequential selections since the alive list last changed
  histOK,       \* least-connections: the window began at equal counts
  held,         \* Obj -> selections not yet completed (sequential callers)
  resp,         \* what the /health endpoint wrote in the step just taken
  running,      \* DefaultHealthChecker.running
  cancelled,    \* hc.cancel() has been called: hc.ctx.Done() is closed
  loops,        \* health-check loop goroutines inside their for/select
  exiting,      \* loop goroutines that returned, deferred store pending
  stopping,     \* StopHealthCheck callers between the load and hc.cancel()
  ticks,        \* ticker firings consumed so far
  probes,       \* bag of probe goroutines spawned by performHealthChecks
  logs,         \* Obj -> "status changed" lines logged for that backend
  flips,        \* Obj -> changes of that backend's Alive flag by a probe
  verdict,      \* Obj -> round and result of the latest-started probe that returned
  config,       \* the Config parseFlags returned
  boot,         \* how far main has come
  arrays,       \* ArrIds -> backing array of a []*Backend (<<>>: not allocated)
  regArr,       \* the array the registry slice points to (0: nil slice)
  snap,         \* the slice performHealthChecks got from GetBackends
  snapWas,      \* the registry when that call returned
  visited       \* the backends the round has started a probe for

\* the health checker's state
hcvars == <<running, cancelled, loops, exiting, stopping, ticks, probes, logs, flips,
            verdict>>

\* main's startup state
bootvars == <<config, boot>>

\* the memory of the registry slice
slicevars == <<arrays, regArr>>

\* a health-check round in progress
roundvars == <<snap, snapWas, visited>>

vars == <<algorithm, heap, nobj, backends, current, req, nreq,
          reserved, released, hist, histOK, held, resp, hcvars,
          bootvars, slicevars, roundvars>>

\* ------------------------------------------------------------ Backend
NewBackend(u, a) ==
  [URL |-> u, Alive |-> a, Connections |-> 0, SuccessCount |-> 0, ErrorCount |-> 0]

NoBackend == NewBackend(0, FALSE)

AddInt32(h, o, field, d) ==
  IF field = "Connections" THEN [h EXCEPT ![o].Connections = @ + d]
  ELSE IF field = "SuccessCount" THEN [h EXCEPT ![o].SuccessCount = @ + d]
  ELSE [h EXCEPT ![o].ErrorCount = @ + d]

\* ----------------------------------------------------------- registry
AliveBackends_NoFilter(h, bs) == bs

\* the alive filter of SelectBackend, in registry order
AliveBackends(h, bs) == SelectSeq(bs, LAMBDA o : h[o].Alive)

\* index of the first entry whose URL matches, 0 when there is none
RECURSIVE FirstMatch(_, _, _, _)
FirstMatch(h, bs, u, i) ==
  IF i > Len(bs) THEN 0
  ELSE IF h[bs[i]].URL = u THEN i
  ELSE FirstMatch(h, bs, u, i + 1)

RemoveAt_SwapLast(bs, i) ==
  [k \in 1..(Len(bs) - 1) |-> IF k = i THEN bs[Len(bs)] ELSE bs[k]]

\* append(backends[:i], backends[i+1:]...)
RemoveAt(bs, i) == SubSeq(bs, 1, i - 1) \o SubSeq(bs, i + 1, Len(bs))

\* the smallest array id that neither the registry nor a snapshot points to
FreeArr(reg, pinned) ==
  CHOOSE i \in ArrIds : /\ i \notin {reg, pinned}
                        /\ \A j \in ArrIds \ {reg, pinned} : i <= j

\* append(s, x) on the slice (reg, n): in place while the capacity lasts,
\* else into a new array of twice the capacity; the old array is collected
\* unless a snapshot (pinned) points to it
SliceAppend(arrs, reg, n, x, pinned) ==
  LET cap == IF reg = 0 THEN 0 ELSE Len(arrs[reg])
  IN IF n < cap
     THEN [arrays |-> [arrs EXCEPT ![reg][n + 1] = x], arr |-> reg]
     ELSE LET id == FreeArr(reg, pinned)
              grown == [k \in 1..(IF cap = 0 THEN 1 ELSE 2 * cap) |->
                          IF k <= n THEN arrs[reg][k]
                          ELSE IF k = n + 1 THEN x ELSE Nil]
              kept == IF reg = 0 \/ reg = pinned THEN arrs
                      ELSE [arrs EXCEPT ![reg] = <<>>]
          IN [arrays |-> [kept EXCEPT ![id] = grown], arr |-> id]

\* append(s[:i], s[i+1:]...) on the slice (reg, n), i counted from 1 and 0
\* for no match: the tail moves down inside the same array
SliceRemove(arrs, reg, n, i) ==
  IF i = 0 THEN arrs
  ELSE [arrs EXCEPT ![reg] = [k \in 1..Len(arrs[reg]) |->
                                IF k >= i /\ k < n THEN arrs[reg][k + 1]
                                ELSE arrs[reg][k]]]

\* the elements a slice header (array, length) shows
SliceValue(arrs, sl) == [k \in 1..sl.len |-> arrs[sl.arr][k]]

MakeAndCopy_Alias(arrs, reg, n) ==
  [arrays |-> arrs, snap |-> [held |-> TRUE, arr |-> reg, len |-> n]]

\* GetBackends: make([]*Backend, len(backends)); copy(backends, lcb.backends)
MakeAndCopy(arrs, reg, n) ==
  IF n = 0 THEN [arrays |-> arrs, snap |-> [held |-> TRUE, arr |-> 0, len |-> 0]]
  ELSE LET id == FreeArr(reg, 0)
       IN [arrays |-> [arrs EXCEPT ![id] = SubSeq(arrs[reg], 1, n)],
           snap |-> [held |-> TRUE, arr |-> id, len |-> n]]

RemoveBackendSeq_AllMatches(h, bs, u) == SelectSeq(bs, LAMBDA o : h[o].URL # u)

RemoveBackendSeq(h, bs, u) ==
  LET i == FirstMatch(h, bs, u, 1) IN IF i = 0 THEN bs ELSE RemoveAt(bs, i)

\* make([]*Backend, len(backends)) and copy: the same pointers, same order
GetBackends(bs) == [i \in 1..Len(bs) |-> bs[i]]

UpdateBackendStatusHeap(h, bs, u, a) ==
  LET i == FirstMatch(h, bs, u, 1)
  IN IF i = 0 THEN h ELSE [h EXCEPT ![bs[i]].Alive = a]


\* -------------------------------------------------------- round-robin
\* atomic.AddUint64(&rb.current, 1) % uint64(len(aliveBackends)):
\* AddUint64 returns the NEW value of the cursor
RoundRobinIndex(cur, n) == (cur + 1) % n

AddUint64_LoadThenStore(cur, atCall) == atCall + 1

\* atomic.AddUint64(&rb.current, 1): the new value, whatever the cursor was
\* when the call began
AddUint64(cur, atCall) == cur + 1

RoundRobinSelect_LostUpdate(h, bs, cur) ==
  LET alive == AliveBackends(h, bs)
  IN IF Len(bs) = 0 \/ Len(alive) = 0
     THEN [backend |-> Nil, current |-> cur]
     ELSE [backend |-> alive[RoundRobinIndex(cur, Len(alive)) + 1],
           current |-> IF cur % 2 = 1 THEN cur ELSE cur + 1]

RoundRobinSelect(h, bs, cur) ==
  LET alive == AliveBackends(h, bs)
  IN IF Len(bs) = 0 \/ Len(alive) = 0
     THEN [backend |-> Nil, current |-> cur]
     ELSE [backend |-> alive[RoundRobinIndex(cur, Len(alive)) + 1],
           current |-> cur + 1]

\* -------------------------------------------------- least-connections
\* locals of the scan before the loop: minConnections := -1, selected nil
LCStart == [minConnections |-> -1, selected |-> Nil]

\* one iteration of `for _, backend := range lcb.backends`
LCVisit_TieLast(h, st, o) ==
  IF ~h[o].Alive THEN st
  ELSE LET connections == h[o].Connections
       IN IF st.minConnections = -1 \/ connections <= st.minConnections
          THEN [minConnections |-> connections, selected |-> o]
          ELSE st

LCVisit(h, st, o) ==
  IF ~h[o].Alive THEN st
  ELSE LET connections == h[o].Connections
       IN IF st.minConnections = -1 \/ connections < st.minConnections
          THEN [minConnections |-> connections, selected |-> o]
          ELSE st

\* `if selected != nil { atomic.AddInt32(&selected.Connections, 1) }`
LCReserve_Store(h, st) ==
  IF st.selected = Nil THEN h
  ELSE [h EXCEPT ![st.selected].Connections = st.minConnections + 1]

LCReserve_None(h, st) == h

LCReserve(h, st) ==
  IF st.selected = Nil THEN h ELSE AddInt32(h, st.selected, "Connections", 1)

\* the whole loop, for a caller that runs SelectBackend without overlap
RECURSIVE LCScan(_, _, _, _)
LCScan(h, bs, st, i) ==
  IF i > Len(bs) THEN st ELSE LCScan(h, bs, LCVisit(h, st, bs[i]), i + 1)

DecrementConnections_First(h, bs, o) ==
  LET i == FirstMatch(h, bs, h[o].URL, 1)
  IN IF i = 0 THEN h ELSE AddInt32(h, bs[i], "Connections", -1)

DecrementConnections_Twice(h, bs, o) == AddInt32(h, o, "Connections", -2)

\* the registry is not consulted: the count of the object itself drops
DecrementConnections(h, bs, o) == AddInt32(h, o, "Connections", -1)

\* ------------------------------------------------------------ ip-hash
\* a request as far as getClientIP reads it: the X-Forwarded-For header
\* (the empty string when absent), X-Real-IP, and the socket peer address
Requests ==
  { [xff |-> "10.0.0.1, 10.0.0.2", realIP |-> "",         remoteAddr |-> "10.0.0.3:5555"],
    [xff |-> " 10.0.0.2",          realIP |-> "10.0.0.1", remoteAddr |-> "10.0.0.3:5555"],
    [xff |-> "",                   realIP |-> "10.0.0.1", remoteAddr |-> "10.0.0.2:4444"],
    [xff |-> "",                   realIP |-> "",         remoteAddr |-> "10.0.0.3:5555"],
    [xff |-> "",                   realIP |-> "",         remoteAddr |-> "10.0.0.3"] }

\* strings.Split(s, ",") on the header values above
Split(s) ==
  IF s = "10.0.0.1, 10.0.0.2" THEN <<"10.0.0.1", " 10.0.0.2">> ELSE <<s>>

TrimSpace(s) == IF s = " 10.0.0.2" THEN "10.0.0.2" ELSE s

\* net.SplitHostPort: fails on an address without a port
SplitHostPort(s) ==
  IF s = "10.0.0.3:5555" THEN [err |-> FALSE, host |-> "10.0.0.3"]
  ELSE IF s = "10.0.0.2:4444" THEN [err |-> FALSE, host |-> "10.0.0.2"]
  ELSE [err |-> TRUE, host |-> ""]

getClientIP(request) ==
  IF request.xff # "" THEN TrimSpace(Split(request.xff)[1])
  ELSE IF request.realIP # "" THEN request.realIP
  ELSE LET hp == SplitHostPort(request.remoteAddr)
       IN IF hp.err THEN request.remoteAddr ELSE hp.host

ClientIPs == {getClientIP(r) : r \in Requests}

\* fmt.Sprintf("%x", md5.Sum(ip)[:4]) as a sequence of hex digits
MD5Hex(ip) ==
  IF ip = "10.0.0.1" THEN <<1, 9, 0, 13, 10, 15, 10, 11>>        \* 190dafab
  ELSE IF ip = "10.0.0.2" THEN <<9, 8, 10, 2, 12, 13, 7, 14>>    \* 98a2cd7e
  ELSE IF ip = "10.0.0.3" THEN <<0, 0, 6, 9, 4, 0, 3, 6>>        \* 00694036
  ELSE <<13, 4, 1, 13, 8, 12, 13, 9>>                            \* d41d8cd9, md5("")

\* strconv.ParseInt(hashStr, 16, 64) followed by `% uint32(n)`: the value
\* of the base-16 numeral reduced modulo n (8 hex digits fit uint32 exactly)
RECURSIVE ParseIntMod(_, _, _, _)
ParseIntMod(digits, i, acc, n) ==
  IF i > Len(digits) THEN acc
  ELSE ParseIntMod(digits, i + 1, (acc * 16 + digits[i]) % n, n)

hashIPMod(ip, n) == ParseIntMod(MD5Hex(ip), 1, 0, n)

IPHashSelect_AllBackends(h, bs, request) ==
  LET alive == AliveBackends(h, bs)
  IN IF Len(bs) = 0 \/ Len(alive) = 0 THEN Nil
     ELSE alive[(hashIPMod(getClientIP(request), Len(bs)) % Len(alive)) + 1]

IPHashSelect(h, bs, request) ==
  LET alive == AliveBackends(h, bs)
  IN IF Len(bs) = 0 \/ Len(alive) = 0 THEN Nil
     ELSE alive[hashIPMod(getClientIP(request), Len(alive)) + 1]


\* ------------------------------------------------------ initial state
ZeroCount == [o \in Obj |-> 0]

\* locals of a ServeHTTP goroutine that is not handling a request
IdleReq ==
  [pc |-> "idle", backend |-> Nil, i |-> 0, st |-> LCStart, seen |-> <<>>,
   status |-> 0, decs |-> 0, pre |-> 0, post |-> 0, clean |-> TRUE]

\* no probe of the backend has returned yet
NoVerdict == [round |-> 0, alive |-> FALSE]

\* no /health response was written by the last step
NoResp == [status |-> "", code |-> 0, healthy_backends |-> 0, total_backends |-> 0]

\* the flags are not followed in this state
NoConfig ==
  [Backends |-> <<>>, Algorithm |-> "", HealthCheckInterval |-> 0, HealthCheckTimeout |-> 0]

\* no round holds a snapshot
NoSnap == [held |-> FALSE, arr |-> 0, len |-> 0]

\* a fresh balancer: empty registry, nil slice, zero cursor; NewHealthChecker:
\* running 0, a context that is not cancelled
Fresh ==
  /\ heap = [o \in Obj |-> NoBackend]
  /\ nobj = 0
  /\ backends = <<>>
  /\ current = 0
  /\ req = [p \in Procs |-> IdleReq]
  /\ nreq = 0
  /\ reserved = ZeroCount
  /\ released = ZeroCount
  /\ hist = <<>>
  /\ histOK = FALSE
  /\ held = ZeroCount
  /\ resp = NoResp
  /\ running = 0
  /\ cancelled = FALSE
  /\ loops = 0
  /\ exiting = 0
  /\ stopping = 0
  /\ ticks = 0
  /\ probes = EmptyBag
  /\ logs = ZeroCount
  /\ flips = ZeroCount
  /\ verdict = [o \in Obj |-> NoVerdict]
  /\ arrays = [a \in ArrIds |-> <<>>]
  /\ regArr = 0
  /\ snap = NoSnap
  /\ snapWas = <<>>
  /\ visited = <<>>

\* main is past createLoadBalancer; what it does with the flags from there
\* on is the choice of the backends it adds
Init ==
  /\ algorithm \in Algorithms
  /\ config = NoConfig
  /\ boot = "created"
  /\ Fresh

\* goroutines inside a SelectBackend that is modelled step by step hold mu.RLock
Readers == {p \in Procs : req[p].pc \in {"lcScan", "lcAdd", "rrAdd"}}

\* goroutines whose reservation on o is not yet released
Holders(o) ==
  {p \in Procs : /\ req[p].backend = o
                 /\ req[p].pc \in {"selected", "doFailed", "deferred"}
                 /\ req[p].decs = 0}

\* hist keeps the last HistCap selections
HistCap == MaxObj + 1

Remember(h, e) == IF Len(h) >= HistCap THEN Append(Tail(h), e) ELSE Append(h, e)

\* a window of selections ends when the alive list changes
HistAfter(h2, bs2) ==
  IF AliveBackends(h2, bs2) = AliveBackends(heap, backends)
  THEN /\ hist' = hist /\ histOK' = histOK
  ELSE /\ hist' = <<>> /\ histOK' = FALSE

\* ------------------------------------------------- registry operations
\* each holds mu.Lock for its whole body, so it is one step that waits
\* for the readers to leave
AddBackend(u, a) ==
  /\ Readers = {}
  /\ nobj < MaxObj
  /\ LET o == nobj + 1
         h2 == [heap EXCEPT ![o] = NewBackend(u, a)]
         bs2 == Append(backends, o)
     IN /\ heap' = h2
        /\ backends' = bs2
        /\ nobj' = o
        /\ HistAfter(h2, bs2)
  /\ LET grown == SliceAppend(arrays, regArr, Len(backends), nobj + 1, snap.arr)
     IN /\ arrays' = grown.arrays
        /\ regArr' = grown.arr
  /\ resp' = NoResp
  /\ UNCHANGED <<hcvars, bootvars, roundvars, algorithm, current, req, nreq, reserved, released, held>>

\* main: every configured address becomes a new Backend with Alive: true,
\* added before the server starts to accept requests
MainAddBackend(u) ==
  /\ nreq = 0
  /\ AddBackend(u, TRUE)

RemoveBackend(u) ==
  /\ Readers = {}
  /\ backends # <<>>
  /\ LET bs2 == RemoveBackendSeq(heap, backends, u)
     IN /\ backends' = bs2
        /\ HistAfter(heap, bs2)
  /\ arrays' = SliceRemove(arrays, regArr, Len(backends), FirstMatch(heap, backends, u, 1))
  /\ regArr' = regArr
  /\ resp' = NoResp
  /\ UNCHANGED <<hcvars, bootvars, roundvars, algorithm, heap, nobj, current, req, nreq, reserved, released, held>>

UpdateBackendStatus(u, a) ==
  /\ Readers = {}
  /\ backends # <<>>
  /\ LET h2 == UpdateBackendStatusHeap(heap, backends, u, a)
     IN /\ heap' = h2
        /\ HistAfter(h2, backends)
  /\ resp' = NoResp
  /\ UNCHANGED <<hcvars, bootvars, roundvars, slicevars, algorithm, nobj, backends, current, req, nreq, reserved, released, held>>

\* ------------------------------------------- ReverseProxy.ServeHTTP
Returned_BadGateway(b) ==
  IF b = Nil THEN [IdleReq EXCEPT !.pc = "done", !.status = 502]
  ELSE [IdleReq EXCEPT !.pc = "selected", !.backend = b]

\* `if backend == nil`: 503 and return; otherwise the request is forwarded
Returned(b) ==
  IF b = Nil THEN [IdleReq EXCEPT !.pc = "done", !.status = 503]
  ELSE [IdleReq EXCEPT !.pc = "selected", !.backend = b]

RRSelectBackend(p) ==
  /\ algorithm = "round-robin"
  /\ req[p].pc = "idle"
  /\ nreq < MaxRequests
  /\ current < MaxCursor
  /\ LET res == RoundRobinSelect(heap, backends, current)
     IN /\ current' = res.current
        /\ req' = [req EXCEPT ![p] = Returned(res.backend)]
  /\ nreq' = nreq + 1
  /\ resp' = NoResp
  /\ UNCHANGED <<hcvars, bootvars, roundvars, slicevars, algorithm, heap, nobj, backends, reserved, released, hist, histOK, held>>

IPHashSelectBackend(p, r) ==
  /\ algorithm = "ip-hash"
  /\ req[p].pc = "idle"
  /\ nreq < MaxRequests
  /\ req' = [req EXCEPT ![p] = Returned(IPHashSelect(heap, backends, r))]
  /\ nreq' = nreq + 1
  /\ resp' = NoResp
  /\ UNCHANGED <<hcvars, bootvars, roundvars, slicevars, algorithm, heap, nobj, backends, current, reserved, released,
                 hist, histOK, held>>

\* RLock, then `if len(lcb.backends) == 0 { return nil }`
LCSelectBegin(p) ==
  /\ algorithm = "least-connections"
  /\ req[p].pc = "idle"
  /\ nreq < MaxRequests
  /\ req' = [req EXCEPT ![p] =
               IF Len(backends) = 0 THEN Returned(Nil)
               ELSE [IdleReq EXCEPT !.pc = "lcScan", !.i = 1]]
  /\ nreq' = nreq + 1
  /\ resp' = NoResp
  /\ UNCHANGED <<hcvars, bootvars, roundvars, slicevars, algorithm, heap, nobj, backends, current, reserved, released,
                 hist, histOK, held>>

\* one loop iteration: reads backend.Alive and loads backend.Connections
LCSelectVisit(p) ==
  /\ req[p].pc = "lcScan"
  /\ LET o == backends[req[p].i]
         read == IF heap[o].Alive THEN heap[o].Connections ELSE -1
     IN req' = [req EXCEPT ![p].st = LCVisit(heap, req[p].st, o),
                           ![p].seen = Append(@, read),
                           ![p].i = @ + 1,
                           ![p].pc = IF req[p].i + 1 > Len(backends)
                                     THEN "lcAdd" ELSE "lcScan"]
  /\ resp' = NoResp
  /\ UNCHANGED <<hcvars, bootvars, roundvars, slicevars, algorithm, heap, nobj, backends, current, nreq, reserved,
                 released, hist, histOK, held>>

\* the increment of the chosen backend, RUnlock and return
LCSelectReturn(p) ==
  /\ req[p].pc = "lcAdd"
  /\ LET b == req[p].st.selected
     IN /\ heap' = LCReserve(heap, req[p].st)
        /\ reserved' = IF b = Nil THEN reserved ELSE [reserved EXCEPT ![b] = @ + 1]
        /\ req' = [q \in Procs |->
                     IF q = p
                     THEN IF b = Nil THEN Returned(Nil)
                          ELSE [Returned(b) EXCEPT !.pre = heap[b].Connections,
                                                   !.seen = req[p].seen]
                     ELSE IF b # Nil /\ q \in Holders(b)
                          THEN [req[q] EXCEPT !.clean = FALSE]
                          ELSE req[q]]
  /\ resp' = NoResp
  /\ UNCHANGED <<hcvars, bootvars, roundvars, slicevars, algorithm, nobj, backends, current, nreq, released, hist, histOK, held>>

\* http.NewRequestWithContext fails: 500 and return
NewRequestFail(p) ==
  /\ req[p].pc = "selected"
  /\ req' = [req EXCEPT ![p].pc = "done", ![p].status = 500]
  /\ resp' = NoResp
  /\ UNCHANGED <<hcvars, bootvars, roundvars, slicevars, algorithm, heap, nobj, backends, current, nreq, reserved,
                 released, hist, histOK, held>>

DoFail_CountsSuccess(p) ==
  /\ req[p].pc = "selected"
  /\ heap' = AddInt32(heap, req[p].backend, "SuccessCount", 1)
  /\ req' = [req EXCEPT ![p].pc = "doFailed", ![p].status = 502]
  /\ resp' = NoResp
  /\ UNCHANGED <<hcvars, bootvars, roundvars, slicevars, algorithm, nobj, backends, current, nreq, reserved, released,
                 hist, histOK, held>>

\* client.Do fails: 502 written, ErrorCount incremented
DoFail(p) ==
  /\ req[p].pc = "selected"
  /\ heap' = AddInt32(heap, req[p].backend, "ErrorCount", 1)
  /\ req' = [req EXCEPT ![p].pc = "doFailed", ![p].status = 502]
  /\ resp' = NoResp
  /\ UNCHANGED <<hcvars, bootvars, roundvars, slicevars, algorithm, nobj, backends, current, nreq, reserved, released,
                 hist, histOK, held>>

Release_AnyBalancer(p) ==
  LET b == req[p].backend
      h2 == DecrementConnections(heap, backends, b)
  IN /\ heap' = h2
     /\ released' = [released EXCEPT ![b] = @ + 1]
     /\ req' = [req EXCEPT ![p].pc = "done", ![p].decs = @ + 1]

\* the release shared by the two places that call DecrementConnections:
\* only `rp.loadBalancer.(*balancer.LeastConnectionsBalancer)` decrements
Release(p) ==
  LET b == req[p].backend
  IN IF algorithm = "least-connections"
     THEN LET h2 == DecrementConnections(heap, backends, b)
          IN /\ heap' = h2
             /\ released' = [released EXCEPT ![b] = @ + 1]
             /\ req' = [q \in Procs |->
                          IF q = p
                          THEN [req[p] EXCEPT !.pc = "done", !.decs = @ + 1,
                                              !.post = h2[b].Connections]
                          ELSE IF q \in Holders(b)
                               THEN [req[q] EXCEPT !.clean = FALSE]
                               ELSE req[q]]
     ELSE /\ req' = [req EXCEPT ![p].pc = "done"]
          /\ UNCHANGED <<heap, released>>

DoFailRelease(p) ==
  /\ req[p].pc = "doFailed"
  /\ Release(p)
  /\ resp' = NoResp
  /\ UNCHANGED <<hcvars, bootvars, roundvars, slicevars, algorithm, nobj, backends, current, nreq, reserved, hist, histOK, held>>

\* client.Do succeeded, io.Copy fails: ErrorCount incremented
CopyFail(p) ==
  /\ req[p].pc = "selected"
  /\ heap' = AddInt32(heap, req[p].backend, "ErrorCount", 1)
  /\ req' = [req EXCEPT ![p].pc = "deferred", ![p].status = 200]
  /\ resp' = NoResp
  /\ UNCHANGED <<hcvars, bootvars, roundvars, slicevars, algorithm, nobj, backends, current, nreq, reserved, released,
                 hist, histOK, held>>

\* the response was relayed: SuccessCount incremented
CopyOK(p) ==
  /\ req[p].pc = "selected"
  /\ heap' = AddInt32(heap, req[p].backend, "SuccessCount", 1)
  /\ req' = [req EXCEPT ![p].pc = "deferred", ![p].status = 200]
  /\ resp' = NoResp
  /\ UNCHANGED <<hcvars, bootvars, roundvars, slicevars, algorithm, nobj, backends, current, nreq, reserved, released,
                 hist, histOK, held>>

\* the deferred function registered after client.Do succeeded
DeferredRelease(p) ==
  /\ req[p].pc = "deferred"
  /\ Release(p)
  /\ resp' = NoResp
  /\ UNCHANGED <<hcvars, bootvars, roundvars, slicevars, algorithm, nobj, backends, current, nreq, reserved, hist, histOK, held>>

\* the handler has returned; the goroutine takes the next request
Finish(p) ==
  /\ req[p].pc = "done"
  /\ req' = [req EXCEPT ![p] = IdleReq]
  /\ resp' = NoResp
  /\ UNCHANGED <<hcvars, bootvars, roundvars, slicevars, algorithm, heap, nobj, backends, current, nreq, reserved,
                 released, hist, histOK, held>>

Next ==
  \/ \E u \in URLs : MainAddBackend(u)
  \/ \E u \in URLs, a \in BOOLEAN : UpdateBackendStatus(u, a)
  \/ \E p \in Procs : RRSelectBackend(p)
  \/ \E p \in Procs, r \in Requests : IPHashSelectBackend(p, r)
  \/ \E p \in Procs : LCSelectBegin(p)
  \/ \E p \in Procs : LCSelectVisit(p)
  \/ \E p \in Procs : LCSelectReturn(p)
  \/ \E p \in Procs : NewRequestFail(p)
  \/ \E p \in Procs : DoFail(p)
  \/ \E p \in Procs : DoFailRelease(p)
  \/ \E p \in Procs : CopyFail(p)
  \/ \E p \in Procs : CopyOK(p)
  \/ \E p \in Procs : DeferredRelease(p)
  \/ \E p \in Procs : Finish(p)

Spec == Init /\ [][Next]_vars


\* ===================== round-robin selections that overlap in time
\* RoundRobinBalancer.SelectBackend in two steps, both under mu.RLock: the
\* alive filter, then the atomic add and the indexing.

\* RLock, the two early returns, and the alive list in between
RRSelectFilter(p) ==
  /\ algorithm = "round-robin"
  /\ req[p].pc = "idle"
  /\ nreq < MaxCursor
  /\ LET alive == AliveBackends(heap, backends)
     IN req' = [req EXCEPT ![p] =
                  IF Len(backends) = 0 \/ Len(alive) = 0 THEN Returned(Nil)
                  ELSE [IdleReq EXCEPT !.pc = "rrAdd", !.seen = alive,
                                       !.pre = current]]
  /\ nreq' = nreq + 1
  /\ resp' = NoResp
  /\ UNCHANGED <<hcvars, bootvars, roundvars, slicevars, algorithm, heap, nobj, backends, current, reserved, released,
                 hist, histOK, held>>

\* index := atomic.AddUint64(&rb.current, 1) % len; return; RUnlock
RRSelectIndex(p) ==
  /\ req[p].pc = "rrAdd"
  /\ LET alive == req[p].seen
         new == AddUint64(current, req[p].pre)
         b == alive[RoundRobinIndex(new - 1, Len(alive)) + 1]
     IN /\ current' = new
        /\ req' = [req EXCEPT ![p] = [Returned(b) EXCEPT !.pre = req[p].pre]]
        /\ hist' = Remember(hist, [client |-> "", backend |-> b])
  /\ resp' = NoResp
  /\ UNCHANGED <<hcvars, bootvars, roundvars, slicevars, algorithm, heap, nobj, backends, nreq, reserved, released,
                 histOK, held>>

\* the handler goes on as in Spec; here it ends by the exit that touches no
\* backend, so that the selections are all that moves
NextRR ==
  \/ \E u \in URLs : MainAddBackend(u)
  \/ \E u \in URLs, a \in BOOLEAN : UpdateBackendStatus(u, a)
  \/ \E p \in Procs : RRSelectFilter(p)
  \/ \E p \in Procs : RRSelectIndex(p)
  \/ \E p \in Procs : NewRequestFail(p)
  \/ \E p \in Procs : Finish(p)

SpecRR == Init /\ [][NextRR]_vars


\* ============================================== the health checker
\* main registers the backends, then starts the checker; StartHealthCheck
\* and StopHealthCheck may be called from any goroutine at any time.

\* the balancer's state other than the backends' fields
lbvars == <<algorithm, nobj, backends, current, req, nreq, reserved, released,
            hist, histOK, held, resp, bootvars, slicevars, roundvars>>

\* main's loop over the configured URLs, before healthChecker.StartHealthCheck
HCMainAddBackend(u) ==
  /\ running = 0 /\ ~cancelled
  /\ MainAddBackend(u)

StartHealthCheck_NoCAS ==
  /\ loops < 2
  /\ running' = 1
  /\ loops' = loops + 1
  /\ UNCHANGED <<lbvars, heap, cancelled, exiting, stopping, ticks, probes, logs, flips, verdict>>

\* CompareAndSwapInt32(&hc.running, 0, 1): on failure return, on success
\* spawn the loop goroutine
StartHealthCheck ==
  IF running = 0
  THEN /\ running' = 1
       /\ loops' = loops + 1
       /\ UNCHANGED <<lbvars, heap, cancelled, exiting, stopping, ticks, probes, logs, flips, verdict>>
  ELSE UNCHANGED vars

\* `if atomic.LoadInt32(&hc.running) == 0 { return }`
StopLoad ==
  IF running = 0
  THEN UNCHANGED vars
  ELSE /\ stopping < MaxStoppers
       /\ stopping' = stopping + 1
       /\ UNCHANGED <<lbvars, heap, running, cancelled, loops, exiting, ticks, probes,
                      logs, flips, verdict>>

\* hc.cancel()
StopCancel ==
  /\ stopping > 0
  /\ stopping' = stopping - 1
  /\ cancelled' = TRUE
  /\ UNCHANGED <<lbvars, heap, running, loops, exiting, ticks, probes, logs, flips, verdict>>

\* a probe goroutine as spawned: about to call CheckHealth(b)
Probe(o, r) ==
  [b |-> o, round |-> r, pc |-> "check", ok |-> FALSE, alive |-> FALSE, prev |-> FALSE]

\* `case <-ticker.C: hc.performHealthChecks()`: a snapshot of the registry
\* and one goroutine per backend in it
LoopTick ==
  /\ loops > 0
  /\ ticks < MaxTicks
  /\ BagCardinality(probes) + Len(backends) <= MaxProbes
  /\ Readers = {}
  /\ ticks' = ticks + 1
  /\ LET snapshot == GetBackends(backends)
     IN probes' = probes (+) SetToBag({Probe(snapshot[i], ticks + 1) : i \in DOMAIN snapshot})
  /\ UNCHANGED <<lbvars, heap, running, cancelled, loops, exiting, stopping, logs, flips, verdict>>

LoopExit_Unprompted ==
  /\ loops > 0
  /\ loops' = loops - 1
  /\ exiting' = exiting + 1
  /\ UNCHANGED <<lbvars, heap, running, cancelled, stopping, ticks, probes, logs, flips, verdict>>

\* `case <-hc.ctx.Done(): return`
LoopExit ==
  /\ loops > 0
  /\ cancelled
  /\ loops' = loops - 1
  /\ exiting' = exiting + 1
  /\ UNCHANGED <<lbvars, heap, running, cancelled, stopping, ticks, probes, logs, flips, verdict>>

\* the deferred atomic.StoreInt32(&hc.running, 0), last thing the loop does
LoopStore ==
  /\ exiting > 0
  /\ exiting' = exiting - 1
  /\ running' = 0
  /\ UNCHANGED <<lbvars, heap, cancelled, loops, stopping, ticks, probes, logs, flips, verdict>>

\* what becomes of the probe request: http.NewRequestWithContext rejects it
\* ("badreq"), or client.Do fails ("error"), or the backend answers
Answers == {"2xx", "non2xx", "error", "badreq"}

\* CheckHealth: the request carries a context derived from hc.ctx, so once
\* hc.ctx is cancelled client.Do returns an error whatever the backend does
CheckHealthResult(ctxCancelled, ans) == ~ctxCancelled /\ ans = "2xx"

\* the counter CheckHealth increments on its way out; the return after a
\* failed NewRequestWithContext increments none
CheckHealthCounter(ctxCancelled, ans) ==
  IF ans = "badreq" THEN "none"
  ELSE IF ~ctxCancelled /\ ans = "2xx" THEN "SuccessCount"
  ELSE "ErrorCount"

\* CheckHealth(b) returns
ProbeCheck(pr, ans) ==
  /\ pr \in BagToSet(probes)
  /\ pr.pc = "check"
  /\ LET alive == CheckHealthResult(cancelled, ans)
         counter == CheckHealthCounter(cancelled, ans)
     IN /\ heap' = IF counter = "none" THEN heap ELSE AddInt32(heap, pr.b, counter, 1)
        /\ probes' = (probes (-) SetToBag({pr}))
                       (+) SetToBag({[pr EXCEPT !.pc = "read", !.ok = (ans = "2xx"),
                                                !.alive = alive]})
        /\ verdict' = IF pr.round >= verdict[pr.b].round
                      THEN [verdict EXCEPT ![pr.b] = [round |-> pr.round, alive |-> alive]]
                      ELSE verdict
  /\ UNCHANGED <<lbvars, running, cancelled, loops, exiting, stopping, ticks, logs, flips>>

\* `previousState := b.Alive`, read without the balancer's lock
ProbeRead(pr) ==
  /\ pr \in BagToSet(probes)
  /\ pr.pc = "read"
  /\ probes' = (probes (-) SetToBag({pr}))
                 (+) SetToBag({[pr EXCEPT !.pc = "update", !.prev = heap[pr.b].Alive]})
  /\ UNCHANGED <<lbvars, heap, running, cancelled, loops, exiting, stopping, ticks,
                 logs, flips, verdict>>

\* hc.balancer.UpdateBackendStatus(b, alive), then the "status changed" log
\* line when previousState != alive
ProbeUpdate(pr) ==
  /\ pr \in BagToSet(probes)
  /\ pr.pc = "update"
  /\ Readers = {}
  /\ LET h2 == UpdateBackendStatusHeap(heap, backends, heap[pr.b].URL, pr.alive)
     IN /\ heap' = h2
        /\ flips' = [o \in Obj |-> IF h2[o].Alive # heap[o].Alive
                                   THEN flips[o] + 1 ELSE flips[o]]
  /\ logs' = IF pr.prev # pr.alive THEN [logs EXCEPT ![pr.b] = @ + 1] ELSE logs
  /\ probes' = probes (-) SetToBag({pr})
  /\ UNCHANGED <<lbvars, running, cancelled, loops, exiting, stopping, ticks, verdict>>

NextHC ==
  \/ \E u \in URLs : HCMainAddBackend(u)
  \/ StartHealthCheck
  \/ StopLoad
  \/ StopCancel
  \/ LoopTick
  \/ LoopExit
  \/ LoopStore
  \/ \E pr \in BagToSet(probes), ans \in Answers : ProbeCheck(pr, ans)
  \/ \E pr \in BagToSet(probes) : ProbeRead(pr)
  \/ \E pr \in BagToSet(probes) : ProbeUpdate(pr)

SpecHC == Init /\ [][NextHC]_vars

\* a called function runs on, and the loop's select takes a ready case
SpecHCFair ==
  /\ SpecHC
  /\ WF_vars(StopCancel)
  /\ WF_vars(LoopExit)
  /\ WF_vars(LoopStore)


\* ===================================================== main's startup
\* main from the parsed flags to the constructed health checker.

\* a command-line backend string url.Parse rejects
BadURL == NURL + 1

\* the configurations parseFlags can return
Configs ==
  [Backends : UNION {[1..n -> URLs \cup {BadURL}] : n \in 0..MaxFlagURLs},
   Algorithm : Algorithms \cup {"random", ""},
   HealthCheckInterval : {-1, 0, 1},
   HealthCheckTimeout : {-1, 0, 1}]

validateConfig_TimeoutUnchecked(c) ==
  IF Len(c.Backends) = 0 THEN "at least one backend must be specified"
  ELSE IF c.Algorithm \notin {"round-robin", "least-connections", "ip-hash"}
       THEN "invalid algorithm"
  ELSE IF c.HealthCheckInterval <= 0 THEN "health check interval must be positive"
  ELSE ""

\* validateConfig: the error it returns, "" for nil
validateConfig(c) ==
  IF Len(c.Backends) = 0 THEN "at least one backend must be specified"
  ELSE IF c.Algorithm \notin {"round-robin", "least-connections", "ip-hash"}
       THEN "invalid algorithm"
  ELSE IF c.HealthCheckInterval <= 0 THEN "health check interval must be positive"
  ELSE IF c.HealthCheckTimeout <= 0 THEN "health check timeout must be positive"
  ELSE ""

InitBoot ==
  /\ config \in Configs
  /\ boot = "parsed"
  /\ algorithm = ""
  /\ Fresh

\* `if err := validateConfig(config); err != nil { log.Fatalf(...) }`
BootValidate ==
  /\ boot = "parsed"
  /\ boot' = IF validateConfig(config) = "" THEN "validated" ELSE "rejected"
  /\ UNCHANGED <<config, algorithm, heap, nobj, backends, current, req, nreq, reserved,
                 released, hist, histOK, held, resp, hcvars, slicevars, roundvars>>

\* createLoadBalancer(config.Algorithm), fatal on its default branch
BootCreateLoadBalancer ==
  /\ boot = "validated"
  /\ IF config.Algorithm \in Algorithms
     THEN algorithm' = config.Algorithm /\ boot' = "created"
     ELSE algorithm' = algorithm /\ boot' = "fatal"
  /\ UNCHANGED <<config, heap, nobj, backends, current, req, nreq, reserved,
                 released, hist, histOK, held, resp, hcvars, slicevars, roundvars>>

\* one turn of the loop over config.Backends: url.Parse succeeded
BootAddBackend ==
  /\ boot = "created"
  /\ nobj < Len(config.Backends)
  /\ config.Backends[nobj + 1] # BadURL
  /\ AddBackend(config.Backends[nobj + 1], TRUE)

\* url.Parse failed: log.Fatalf("Invalid backend URL ...")
BootInvalidURL ==
  /\ boot = "created"
  /\ nobj < Len(config.Backends)
  /\ config.Backends[nobj + 1] = BadURL
  /\ boot' = "fatal"
  /\ UNCHANGED <<config, algorithm, heap, nobj, backends, current, req, nreq, reserved,
                 released, hist, histOK, held, resp, hcvars, slicevars, roundvars>>

\* balancer.NewHealthChecker after the last backend was added
BootNewHealthChecker ==
  /\ boot = "created"
  /\ nobj = Len(config.Backends)
  /\ boot' = "checker"
  /\ UNCHANGED <<config, algorithm, heap, nobj, backends, current, req, nreq, reserved,
                 released, hist, histOK, held, resp, hcvars, slicevars, roundvars>>

NextBoot ==
  \/ BootValidate
  \/ BootCreateLoadBalancer
  \/ BootAddBackend
  \/ BootInvalidURL
  \/ BootNewHealthChecker

SpecBoot == InitBoot /\ [][NextBoot]_vars


\* ================================== a round against a changing registry
\* performHealthChecks step by step while AddBackend and RemoveBackend are
\* called by other goroutines.

\* backends := hc.balancer.GetBackends()
RoundSnapshot ==
  /\ ~snap.held
  /\ Readers = {}
  /\ LET got == MakeAndCopy(arrays, regArr, Len(backends))
     IN /\ arrays' = got.arrays
        /\ snap' = got.snap
  /\ snapWas' = backends
  /\ visited' = <<>>
  /\ UNCHANGED <<algorithm, heap, nobj, backends, current, req, nreq, reserved,
                 released, hist, histOK, held, resp, hcvars, bootvars, regArr>>

\* one turn of `for _, backend := range backends { go func(b) ... }`
RoundVisit ==
  /\ snap.held
  /\ Len(visited) < snap.len
  /\ visited' = Append(visited, arrays[snap.arr][Len(visited) + 1])
  /\ UNCHANGED <<algorithm, heap, nobj, backends, current, req, nreq, reserved,
                 released, hist, histOK, held, resp, hcvars, bootvars, slicevars,
                 snap, snapWas>>

\* performHealthChecks returns; the snapshot is garbage
RoundEnd ==
  /\ snap.held
  /\ Len(visited) = snap.len
  /\ snap' = NoSnap
  /\ snapWas' = <<>>
  /\ visited' = <<>>
  /\ arrays' = IF snap.arr \in {0, regArr} THEN arrays
               ELSE [arrays EXCEPT ![snap.arr] = <<>>]
  /\ UNCHANGED <<algorithm, heap, nobj, backends, current, req, nreq, reserved,
                 released, hist, histOK, held, resp, hcvars, bootvars, regArr>>

NextRound ==
  \/ \E u \in URLs, a \in BOOLEAN : AddBackend(u, a)
  \/ \E u \in URLs : RemoveBackend(u)
  \/ RoundSnapshot
  \/ RoundVisit
  \/ RoundEnd

SpecRound == Init /\ [][NextRound]_vars


\* ============================ properties of the concurrent dispatcher

RECURSIVE SumOver(_, _)
SumOver(f, S) ==
  IF S = {} THEN 0
  ELSE LET o == CHOOSE x \in S : TRUE IN f[o] + SumOver(f, S \ {o})

TotalConnections == SumOver([o \in Obj |-> heap[o].Connections], Obj)

\* registry positions whose backend has the alive flag set
AlivePositions == {i \in DOMAIN backends : heap[backends[i]].Alive}

\* goroutine p returns from SelectBackend in this step
SelectReturns(p) ==
  /\ req[p].pc \in {"idle", "lcAdd"}
  /\ req'[p].pc \in {"selected", "done"}

\* C1: for each strategy, SelectBackend never returns a backend whose alive
\* flag is false at the liveness check, the backend it returns is a
\* registered one, and it returns nil exactly when no registered backend is
\* alive (k = 0), the empty registry included.
C1_SelectAliveOrNone ==
  [][\A p \in Procs :
       SelectReturns(p) =>
         LET b == req'[p].backend
         IN /\ (b = Nil) <=> (AlivePositions = {})
            /\ b # Nil => /\ heap[b].Alive
                          /\ \E i \in DOMAIN backends : backends[i] = b]_vars

\* a selection returned a backend while another registered backend is dead
C1_Witness ==
  \E p \in Procs :
    /\ req[p].pc = "selected"
    /\ heap[req[p].backend].Alive
    /\ \E i \in DOMAIN backends : ~heap[backends[i]].Alive

\* C2: with least-connections, a handler that was given a backend has
\* decremented that backend's connection count exactly once by the time it
\* returns, whatever the exit path.
C2_ReleasedOnEveryExit ==
  \A p \in Procs :
    (algorithm = "least-connections" /\ req[p].pc = "done" /\ req[p].backend # Nil)
      => req[p].decs = 1

\* C3: least-connections, m selections returned and no completion yet: the
\* sum of all connection counts has grown by exactly m (it starts at 0),
\* whatever the interleaving of the selections.
C3_SumGrowsByM ==
  (algorithm = "least-connections" /\ SumOver(released, Obj) = 0)
    => TotalConnections = SumOver(reserved, Obj)

\* two overlapping selections both reserved the same backend
C3_Witness ==
  /\ algorithm = "least-connections"
  /\ SumOver(released, Obj) = 0
  /\ \E b \in Obj : /\ \A p \in Procs : req[p].pc = "selected" /\ req[p].backend = b
                    /\ heap[b].Connections = NProc

\* C4: select-and-reserve is one atomic step: while one SelectBackend is
\* between its scan and its increment no other SelectBackend reads the
\* connection counts.
C4_ExclusiveSelect == Cardinality(Readers) <= 1

\* C5: round trip.  A selection of b followed by its paired decrement leaves
\* b's count at its pre-selection value when no other select or decrement
\* touched b in between; in general every backend's count is the number of
\* selections of it minus the number of paired decrements on it.
C5_RoundTrip ==
  algorithm = "least-connections" =>
    /\ \A p \in Procs :
         (req[p].pc = "done" /\ req[p].decs = 1 /\ req[p].clean)
           => req[p].post = req[p].pre
    /\ \A o \in Obj : heap[o].Connections = reserved[o] - released[o]

\* a pair completed on a backend that another request still holds
C5_Witness ==
  /\ algorithm = "least-connections"
  /\ \E p \in Procs, q \in Procs :
       /\ req[p].pc = "done" /\ req[p].decs = 1
       /\ q \in Holders(req[p].backend)
       /\ heap[req[p].backend].URL = heap[backends[1]].URL
       /\ req[p].backend # backends[1]

\* C6: the backend the least-connections scan settles on is alive, its count
\* as read by the scan is minimal among the alive backends, and among those
\* sharing the minimum it is the first in registry order.
C6_MinFirst ==
  \A p \in Procs :
    req[p].pc = "lcAdd" =>
      LET sel == req[p].st.selected
          seen == req[p].seen
      IN IF AlivePositions = {} THEN sel = Nil
         ELSE \E j \in AlivePositions :
                /\ backends[j] = sel
                /\ \A i \in AlivePositions :
                     /\ seen[j] <= seen[i]
                     /\ i < j => seen[i] > seen[j]

\* the scan read 1, 0, 0 and settled on the second backend
C6_Witness ==
  \E p \in Procs :
    /\ req[p].pc = "lcAdd"
    /\ req[p].seen = <<1, 0, 0>>
    /\ req[p].st.selected = backends[2]

\* C16: forwarding to the chosen backend fails: its ErrorCount grows by
\* exactly one and nothing else in any backend changes, the caller gets 502,
\* the handler then returns with the same backend (no second selection, the
\* cursor untouched) and, with least-connections, the reserved slot is
\* released by exactly one decrement.
C16_IOFailure ==
  [][\A p \in Procs :
       LET b == req[p].backend
       IN /\ (req[p].pc = "selected" /\ req'[p].pc = "doFailed") =>
               /\ req'[p].status = 502
               /\ req'[p].backend = b
               /\ heap'[b] = [heap[b] EXCEPT !.ErrorCount = @ + 1]
               /\ \A o \in Obj \ {b} : heap'[o] = heap[o]
          /\ req[p].pc = "doFailed" =>
               /\ req'[p].pc \in {"doFailed", "done"}
               /\ req'[p].backend = b
               /\ req'[p].status = 502
               /\ heap'[b].ErrorCount >= heap[b].ErrorCount
          /\ (req[p].pc = "doFailed" /\ req'[p].pc = "done") =>
               /\ current' = current
               /\ heap'[b].SuccessCount = heap[b].SuccessCount
               /\ heap'[b].ErrorCount = heap[b].ErrorCount
               /\ heap'[b].Connections =
                    IF algorithm = "least-connections"
                    THEN heap[b].Connections - 1 ELSE heap[b].Connections
               /\ req'[p].decs = IF algorithm = "least-connections" THEN 1 ELSE 0
    ]_vars

\* a least-connections handler answered 502 and released its slot
C16_Witness ==
  \E p \in Procs :
    /\ algorithm = "least-connections"
    /\ req[p].pc = "done" /\ req[p].status = 502
    /\ req[p].decs = 1
    /\ heap[req[p].backend].ErrorCount = 1
    /\ heap[req[p].backend].Connections = 0

\* C17: a selection that returns while no registered backend is alive (the
\* empty registry included) ends the request with 503, and no field of any
\* backend changes.
C17_Unavailable ==
  [][\A p \in Procs :
       (SelectReturns(p) /\ AlivePositions = {}) =>
          /\ req'[p].pc = "done"
          /\ req'[p].status = 503
          /\ req'[p].backend = Nil
          /\ heap' = heap
          /\ backends' = backends
    ]_vars

\* a request was refused with 503 by a registry whose backends are all dead
C17_Witness ==
  \E p \in Procs :
    /\ req[p].pc = "done" /\ req[p].status = 503
    /\ Len(backends) = 2
    /\ AlivePositions = {}

\* C18: no backend's connection count is ever negative, whatever the
\* strategy and the interleaving of handlers and registry operations.
C18_ConnectionsNonNegative == \A o \in Obj : heap[o].Connections >= 0

\* a reservation was made and released: the count is back at zero
C18_Witness ==
  \E p \in Procs :
    /\ req[p].pc = "done" /\ req[p].decs = 1
    /\ req[p].post = 0
    /\ \E q \in Procs \ {p} : req[q].pc = "selected" /\ req[q].backend = req[p].backend

\* C28: with round-robin and ip-hash neither the selection nor any exit
\* path of the handler writes a connection count: every backend's count
\* stays at its initial value 0 through any sequence of requests.
C28_CountsUntouched ==
  algorithm \in {"round-robin", "ip-hash"} =>
    \A o \in Obj : heap[o].Connections = 0

\* requests were forwarded by a balancer that is not least-connections, one
\* completed after a relayed response and one after a failed forward
C28_Witness ==
  /\ algorithm \in {"round-robin", "ip-hash"}
  /\ \E p \in Procs, q \in Procs :
       /\ req[p].pc = "done" /\ req[p].status = 200
       /\ req[q].pc = "done" /\ req[q].status = 502
       /\ req[p].decs = 0 /\ req[q].decs = 0


\* ======================= the balancer interface, called without overlap
\* One caller invokes the methods of the LoadBalancer interface one after
\* the other, each running to completion.  hist remembers the selections
\* made since the alive list last changed (the last HistCap of them).

\* all alive registered backends have the same connection count
EqualCounts ==
  \A i \in AlivePositions, j \in AlivePositions :
    heap[backends[i]].Connections = heap[backends[j]].Connections

SeqRoundRobin ==
  /\ algorithm = "round-robin"
  /\ current < MaxCursor
  /\ LET res == RoundRobinSelect(heap, backends, current)
     IN /\ res.backend # Nil
        /\ current' = res.current
        /\ hist' = Remember(hist, [client |-> "", backend |-> res.backend])
  /\ resp' = NoResp
  /\ UNCHANGED <<hcvars, bootvars, roundvars, slicevars, algorithm, heap, nobj, backends, req, nreq, reserved, released,
                 histOK, held>>

SeqIPHash(r) ==
  /\ algorithm = "ip-hash"
  /\ LET b == IPHashSelect(heap, backends, r)
     IN /\ b # Nil
        /\ hist' = Remember(hist, [client |-> getClientIP(r), backend |-> b])
  /\ resp' = NoResp
  /\ UNCHANGED <<hcvars, bootvars, roundvars, slicevars, algorithm, heap, nobj, backends, current, req, nreq, reserved,
                 released, histOK, held>>

\* the scan and the increment of one SelectBackend call, run to completion;
\* a new window of selections begins when the alive backends are at equal
\* counts and the previous window is complete
SeqLeastConnections ==
  /\ algorithm = "least-connections"
  /\ SumOver(held, Obj) < MaxHeld
  /\ LET st == LCScan(heap, backends, LCStart, 1)
         e == [client |-> "", backend |-> st.selected]
     IN /\ st.selected # Nil
        /\ heap' = LCReserve(heap, st)
        /\ held' = [held EXCEPT ![st.selected] = @ + 1]
        /\ IF EqualCounts /\ ~(histOK /\ Len(hist) < Cardinality(AlivePositions))
           THEN /\ hist' = <<e>> /\ histOK' = TRUE
           ELSE /\ hist' = Remember(hist, e) /\ histOK' = histOK
  /\ resp' = NoResp
  /\ UNCHANGED <<hcvars, bootvars, roundvars, slicevars, algorithm, nobj, backends, current, req, nreq, reserved, released>>

\* the completion of an earlier selection: DecrementConnections(backend)
SeqDecrement(o) ==
  /\ algorithm = "least-connections"
  /\ held[o] > 0
  /\ heap' = DecrementConnections(heap, backends, o)
  /\ held' = [held EXCEPT ![o] = @ - 1]
  /\ hist' = <<>>
  /\ histOK' = FALSE
  /\ resp' = NoResp
  /\ UNCHANGED <<hcvars, bootvars, roundvars, slicevars, algorithm, nobj, backends, current, req, nreq, reserved, released>>

\* the loop of handleHealthCheck over the snapshot: healthyCount
RECURSIVE HealthyCount(_, _, _)
HealthyCount(h, snapshot, i) ==
  IF i > Len(snapshot) THEN 0
  ELSE (IF h[snapshot[i]].Alive THEN 1 ELSE 0) + HealthyCount(h, snapshot, i + 1)

HealthResponse_TotalAsHealthy(h, snapshot) ==
  [status |-> IF Len(snapshot) = 0 THEN "unhealthy" ELSE "healthy",
   code |-> IF Len(snapshot) = 0 THEN 503 ELSE 200,
   healthy_backends |-> Len(snapshot),
   total_backends |-> Len(snapshot)]

\* what handleHealthCheck writes: the status line and the three summary fields
HealthResponse(h, snapshot) ==
  LET healthyCount == HealthyCount(h, snapshot, 1)
  IN [status |-> IF healthyCount = 0 THEN "unhealthy" ELSE "healthy",
      code |-> IF healthyCount = 0 THEN 503 ELSE 200,
      healthy_backends |-> healthyCount,
      total_backends |-> Len(snapshot)]

\* GET /health served by ReverseProxy.ServeHTTP
SeqHealthEndpoint ==
  /\ resp' = HealthResponse(heap, GetBackends(backends))
  /\ UNCHANGED <<hcvars, bootvars, roundvars, slicevars, algorithm, heap, nobj, backends, current, req, nreq,
                 reserved, released, hist, histOK, held>>

NextSeq ==
  \/ \E u \in URLs, a \in BOOLEAN : AddBackend(u, a)
  \/ \E u \in URLs : RemoveBackend(u)
  \/ \E u \in URLs, a \in BOOLEAN : UpdateBackendStatus(u, a)
  \/ SeqRoundRobin
  \/ \E r \in Requests : SeqIPHash(r)
  \/ SeqLeastConnections
  \/ \E o \in Obj : SeqDecrement(o)
  \/ SeqHealthEndpoint

SpecSeq == Init /\ [][NextSeq]_vars

\* the alive registered backends in registry order
AliveList == [i \in 1..Cardinality(AlivePositions) |->
                backends[CHOOSE j \in AlivePositions :
                           Cardinality({x \in AlivePositions : x < j}) = i - 1]]

\* C7: least-connections, k alive backends at equal counts: k selections
\* made one after the other with no completion in between return k distinct
\* backends (three backends at 0: two selections differ, the third returns
\* the untouched one).
C7_DistinctAtEqualCounts ==
  (algorithm = "least-connections" /\ histOK)
    => /\ Len(hist) <= Cardinality(AlivePositions)
       /\ \A i \in DOMAIN hist, j \in DOMAIN hist :
            i # j => hist[i].backend # hist[j].backend

\* three alive backends at 0, three selections: one each
C7_Witness ==
  /\ algorithm = "least-connections" /\ histOK
  /\ Len(backends) = 3 /\ Cardinality(AlivePositions) = 3
  /\ Len(hist) = 3
  /\ \A i \in 1..3 : heap[backends[i]].Connections = 1

\* C8: round-robin over an alive list that stays fixed with size k: any k
\* consecutive selections are the alive list in registry order, rotated.
C8_RotationOfAlive ==
  LET k == Cardinality(AlivePositions)
      n == Len(hist)
  IN (algorithm = "round-robin" /\ k >= 1 /\ n >= k)
       => \E off \in 0..(k - 1) :
            \A j \in 1..k :
              hist[n - k + j].backend = AliveList[((off + j - 1) % k) + 1]

\* two of three backends alive, four selections since the list last changed
C8_Witness ==
  /\ algorithm = "round-robin"
  /\ Len(backends) = 3 /\ Cardinality(AlivePositions) = 2
  /\ Len(hist) = 4

\* C9: a fresh round-robin balancer with three backends, all alive: the
\* first selection returns backends[1] (backend[0] in Go), the second
\* backends[2] (backend[1]).
C9_FirstThenSecond ==
  (/\ algorithm = "round-robin"
   /\ Len(backends) = 3 /\ Cardinality(AlivePositions) = 3
   /\ current = Len(hist))
    => /\ Len(hist) >= 1 => hist[1].backend = backends[1]
       /\ Len(hist) >= 2 => hist[2].backend = backends[2]

\* C10: ip-hash: while the alive list is unchanged, selections carrying the
\* same client identifier return the same backend, whatever selections for
\* other clients come in between.
C10_SameClientSameBackend ==
  algorithm = "ip-hash" =>
    \A i \in DOMAIN hist, j \in DOMAIN hist :
      hist[i].client = hist[j].client => hist[i].backend = hist[j].backend

\* a client selected twice around another client that went elsewhere,
\* with a dead backend registered beside two alive ones
C10_Witness ==
  /\ algorithm = "ip-hash"
  /\ Cardinality(AlivePositions) = 2 /\ Len(backends) = 3
  /\ \E i, j, l \in DOMAIN hist :
       /\ i < j /\ j < l
       /\ hist[i].client = hist[l].client
       /\ hist[j].client # hist[i].client
       /\ hist[j].backend # hist[i].backend

\* C15: the health endpoint reports healthy_backends = number of registered
\* backends whose alive flag is true, total_backends = number of registered
\* backends, and "healthy"/200 if and only if at least one is alive,
\* "unhealthy"/503 otherwise.
C15_StatusSnapshot ==
  resp # NoResp =>
    /\ resp.healthy_backends = Cardinality(AlivePositions)
    /\ resp.total_backends = Len(backends)
    /\ (AlivePositions # {}) <=> (resp.status = "healthy" /\ resp.code = 200)
    /\ (AlivePositions = {}) <=> (resp.status = "unhealthy" /\ resp.code = 503)

\* the scenario of the specification: 2 of 3 alive gives 2, 3, 200
C15_Witness ==
  /\ Len(backends) = 3 /\ Cardinality(AlivePositions) = 2
  /\ resp = [status |-> "healthy", code |-> 200,
             healthy_backends |-> 2, total_backends |-> 3]

\* C19 as stated: the registry never holds two entries with the same address
C19_NoDuplicateAddresses ==
  \A i \in DOMAIN backends, j \in DOMAIN backends :
    i # j => heap[backends[i]].URL # heap[backends[j]].URL

\* C19, amended: AddBackend appends without looking at the address, so the
\* registry may hold several entries with one address; the entries stay in
\* insertion order (objects are numbered in the order they were added) and
\* GetBackends returns them in that order.
C19_InsertionOrder ==
  /\ \A i \in DOMAIN backends, j \in DOMAIN backends :
       i < j => backends[i] < backends[j]
  /\ GetBackends(backends) = backends

\* two entries with one address are registered, after a removal in front of them
C19_Witness ==
  /\ backends = <<2, 3>>
  /\ heap[2].URL = heap[3].URL

\* the entries of the registry other than the first one whose address is u
RegistryWithoutFirst(u) ==
  LET matches == {i \in DOMAIN backends : heap[backends[i]].URL = u}
  IN IF matches = {} THEN backends
     ELSE LET k == CHOOSE i \in matches : \A j \in matches : i <= j
          IN [i \in 1..(Len(backends) - 1) |->
                IF i < k THEN backends[i] ELSE backends[i + 1]]

\* C20: RemoveBackend removes exactly the first entry whose address equals
\* the argument's and keeps the others in their order; without such an
\* entry the registry is unchanged; no backend's fields change.
C20_RemovesFirstMatch ==
  [][/\ \A u \in URLs : RemoveBackendSeq(heap, backends, u) = RegistryWithoutFirst(u)
     /\ Len(backends') < Len(backends) =>
          /\ \E u \in URLs : /\ \E i \in DOMAIN backends : heap[backends[i]].URL = u
                             /\ backends' = RegistryWithoutFirst(u)
          /\ Len(backends') = Len(backends) - 1
          /\ heap' = heap
    ]_vars

\* the first of two entries with one address was removed, the second stays
C20_Witness ==
  /\ nobj = 3
  /\ backends = <<2, 3>>
  /\ heap[1].URL = heap[3].URL /\ heap[2].URL # heap[3].URL

\* ======================================= properties of the health checker

\* C11: StartHealthCheck on a running checker is a no-op, so at most one
\* periodic loop exists at any time and the flag is 1 exactly while it does;
\* StopHealthCheck on a stopped checker changes nothing: the context is
\* only ever cancelled while the checker is running.
C11_StartStopIdempotent ==
  [][/\ loops + exiting <= 1
     /\ (running = 1) <=> (loops + exiting = 1)
     /\ (running = 1 /\ running' = 1) => (loops' + exiting' = loops + exiting)
     /\ cancelled' # cancelled => running = 1
     /\ running = 0 => (stopping' <= stopping /\ cancelled' = cancelled)
    ]_vars

\* both calls were repeated: a second stop is in progress after the first
\* one cancelled, and the one loop is still there
C11_Witness ==
  /\ running = 1 /\ loops = 1
  /\ cancelled /\ stopping = 1
  /\ ticks = MaxTicks

\* the registry holds one entry per address
OneEntryPerAddress ==
  \A i \in DOMAIN backends, j \in DOMAIN backends :
    i # j => heap[backends[i]].URL # heap[backends[j]].URL

\* C12: while every probe of an alive backend fails, however many there
\* are and however they overlap, its alive flag changes (to false) exactly
\* once and the change is reported by exactly one "status changed" line.
C12_FlipLoggedOnce ==
  OneEntryPerAddress =>
    \A o \in Obj :
      heap[o].SuccessCount = 0 =>
        /\ flips[o] <= 1
        /\ logs[o] <= 1
        /\ probes = EmptyBag => logs[o] = flips[o]

\* C13: a probe whose backend answers 2xx reports the backend alive and
\* counts no error, whether or not StopHealthCheck was called meanwhile.
C13_StopDoesNotInterrupt ==
  \A pr \in BagToSet(probes) : (pr.pc # "check" /\ pr.ok) => pr.alive

\* C14: the loop leaves its select only after a cancellation, which only a
\* StopHealthCheck call makes; a probe, failing or not, never ends it.  Once
\* a stop of a running checker is under way the loop exits and the running
\* flag returns to 0.
C14_LoopTermination ==
  /\ [][/\ loops' < loops => cancelled
        /\ (cancelled' /\ ~cancelled) => stopping' < stopping
        /\ probes' # probes => (loops' = loops /\ running' = running)
       ]_vars
  /\ (stopping > 0 \/ (cancelled /\ running = 1)) ~> (running = 0 /\ loops = 0)

\* the loop ran its rounds, probes failed, and the stop ended it
C14_Witness ==
  /\ running = 0 /\ cancelled
  /\ ticks = MaxTicks
  /\ \E o \in Obj : heap[o].ErrorCount > 0

\* C23: StartHealthCheck from the stopped state spawns a loop that keeps
\* running its rounds until a stop is requested, also when the checker was
\* started and stopped before: the loop it spawns never finds its context
\* already cancelled.
C23_RestartResumes ==
  [][(running = 0 /\ running' = 1) => ~cancelled']_vars

\* probes whose CheckHealth call has not returned yet
ProbesInCheck ==
  LET S == {pr \in BagToSet(probes) : pr.pc = "check"}
  IN SumOver([pr \in S |-> CopiesIn(pr, probes)], S)

\* C24: every probe whose CheckHealth has returned added exactly one to
\* exactly one of its backend's two counters, whatever the outcome, a
\* request that could not be built included: the counters of all backends
\* add up to the number of probes that returned.
C24_OneCounterPerProbe ==
  SumOver([o \in Obj |-> heap[o].SuccessCount + heap[o].ErrorCount], Obj)
    = ticks * Len(backends) - ProbesInCheck

\* C25: after the one round so far has completed, every registry entry,
\* entries sharing an address included, has its alive flag equal to the
\* result of its own probe.
C25_OwnProbeResult ==
  (ticks = 1 /\ probes = EmptyBag) =>
    \A i \in DOMAIN backends :
      heap[backends[i]].Alive = verdict[backends[i]].alive

\* C26: once all probes have finished, a backend's alive flag is the result
\* of the probe of it that was started last, also when probes of successive
\* rounds overlapped.
C26_LatestProbeWins ==
  (OneEntryPerAddress /\ probes = EmptyBag) =>
    \A i \in DOMAIN backends :
      verdict[backends[i]].round > 0 =>
        heap[backends[i]].Alive = verdict[backends[i]].alive

\* ============================= properties of overlapping round-robin
\* how often backend o was returned in the current window of selections
TimesSelected(o) == Cardinality({i \in DOMAIN hist : hist[i].backend = o})

\* C27: round-robin, the alive set fixed at size k: of the m selections made
\* since it last changed (the last HistCap of them), overlapping or not,
\* every alive backend received floor(m/k) or ceil(m/k), and no other
\* backend received any.
C27_EvenSpread ==
  (algorithm = "round-robin" /\ hist # <<>>) =>
    LET m == Len(hist)
        k == Cardinality(AlivePositions)
    IN /\ k > 0
       /\ \A i \in DOMAIN hist : \E j \in AlivePositions : hist[i].backend = backends[j]
       /\ \A j \in AlivePositions :
            TimesSelected(backends[j]) \in {m \div k, (m + k - 1) \div k}

\* four selections over three alive backends, the last two overlapping:
\* both calls began at the same cursor value
C27_Witness ==
  /\ algorithm = "round-robin"
  /\ Len(hist) = 4 /\ Cardinality(AlivePositions) = 3
  /\ \E p \in Procs, q \in Procs :
       /\ p # q
       /\ req[p].pc = "selected" /\ req[q].pc = "selected"
       /\ req[p].pre = req[q].pre
       /\ req[p].backend # req[q].backend

\* ===================================== properties of main's startup

\* one of the four conditions validateConfig tests
Invalid(c) ==
  \/ c.Backends = <<>>
  \/ c.Algorithm \notin {"round-robin", "least-connections", "ip-hash"}
  \/ c.HealthCheckInterval <= 0
  \/ c.HealthCheckTimeout <= 0

\* C22 as stated: startup ends in an error exactly for the configurations
\* with an empty backend list, an unknown algorithm or a non-positive
\* interval or timeout; every other configuration is accepted.
C22_RejectedIffInvalid ==
  /\ boot \in {"rejected", "fatal"} => Invalid(config)
  /\ boot \in {"validated", "created", "checker"} => ~Invalid(config)

\* C22, amended: validation rejects exactly those configurations, before
\* anything is constructed; every other configuration passes validation,
\* and startup then still ends in an error, after the balancer was
\* constructed and before the health checker is, exactly when a backend URL
\* does not parse.
C22_ValidationThenURLs ==
  /\ boot = "rejected" =>
       (Invalid(config) /\ algorithm = "" /\ nobj = 0 /\ backends = <<>>)
  /\ boot \in {"validated", "created", "checker", "fatal"} => ~Invalid(config)
  /\ boot = "fatal" =>
       /\ algorithm = config.Algorithm
       /\ nobj < Len(config.Backends) /\ config.Backends[nobj + 1] = BadURL
       /\ \A i \in 1..nobj : config.Backends[i] # BadURL
  /\ boot = "checker" =>
       /\ algorithm = config.Algorithm
       /\ Len(backends) = Len(config.Backends)
       /\ \A i \in DOMAIN backends : /\ heap[backends[i]].URL = config.Backends[i]
                                     /\ heap[backends[i]].Alive

\* a configuration whose only fault is the timeout was rejected
C22_Witness ==
  /\ boot = "rejected"
  /\ Len(config.Backends) = MaxFlagURLs
  /\ config.Algorithm = "ip-hash"
  /\ config.HealthCheckInterval = 1 /\ config.HealthCheckTimeout = 0

\* ================== properties of a round against a changing registry

\* C21: the list GetBackends returned keeps its members and their order
\* whatever AddBackend and RemoveBackend do afterwards, and the round starts
\* a probe for exactly the backends registered when it took the list.
C21_SnapshotStable ==
  /\ backends = SliceValue(arrays, [arr |-> regArr, len |-> Len(backends)])
  /\ snap.held =>
       /\ SliceValue(arrays, snap) = snapWas
       /\ visited = SubSeq(snapWas, 1, Len(visited))

\* the round is through its list of two while the registry has lost its
\* first entry and gained a new one since
C21_Witness ==
  /\ snap.held
  /\ snapWas = <<1, 2>> /\ visited = <<1, 2>>
  /\ backends = <<2, 3>>

====
